---------------------------- MODULE Spec2Model ----------------------------
(***************************************************************************)
(* A model of the dmarcation milter (ietf-tools/dmarcation):               *)
(*   src/src/milter/processor.py   the rewrite-decision engine             *)
(*   src/src/utils/config.py       the two-level configuration lookup      *)
(*                                                                         *)
(* Text is modelled as a sequence of code points (integers), so that the   *)
(* percent-encoding, the splitting on "@" and the whitespace stripping are *)
(* computed character by character, as the Python code computes them.      *)
(***************************************************************************)
EXTENDS Integers, Sequences, FiniteSets, TLC

(***************************************************************************)
(* Bounds of the model.                                                    *)
(***************************************************************************)
\* longest address string handed to the codec
MaxLen == 3
\* most headers of a message
MaxHeaders == 3
\* most headers handed to check_required_headers on its own
MaxGateHeaders == 2
\* most domains handed to check_all_dmarc_rejections on its own
MaxDomains == 2

(***************************************************************************)
(* Characters.                                                             *)
(***************************************************************************)
\* The code point of each character the model writes down.
Ord ==
  [c \in {" ", "\"", "%", ",", ".", "/", "0", "2", "3", "4", "5", "<", "=",
          ">", "@", "D", "M", "N", "V", "W", "\\", "a", "b", "d", "e", "r",
          "x", "~"} |->
     CASE c = " "  -> 32  [] c = "\"" -> 34 [] c = "%" -> 37  [] c = "," -> 44
       [] c = "."  -> 46  [] c = "/" -> 47  [] c = "0" -> 48  [] c = "2" -> 50
       [] c = "3"  -> 51  [] c = "4" -> 52  [] c = "5" -> 53  [] c = "<" -> 60
       [] c = "="  -> 61  [] c = ">" -> 62  [] c = "@" -> 64  [] c = "D" -> 68
       [] c = "M"  -> 77  [] c = "N" -> 78  [] c = "V" -> 86  [] c = "W" -> 87
       [] c = "\\" -> 92  [] c = "a" -> 97  [] c = "b" -> 98  [] c = "d" -> 100
       [] c = "e"  -> 101 [] c = "r" -> 114 [] c = "x" -> 120 [] c = "~" -> 126]

\* The text whose characters are the one-character strings of s.
Str(s) == [i \in DOMAIN s |-> Ord[s[i]]]

\* All sequences over S of length 0..n.
SeqsUpTo(S, n) == UNION {[1..k -> S] : k \in 0..n}

(***************************************************************************)
(* urllib.parse.quote / unquote, as quote_email_address and                *)
(* unquote_email_address call them (safe = "/", UTF-8, errors = replace).  *)
(***************************************************************************)
\* Characters quote() never escapes: letters, digits, "_.-~", and safe "/".
IsUnreserved(c) ==
  \/ c \in 48..57 \/ c \in 65..90 \/ c \in 97..122
  \/ c \in {95, 46, 45, 126, 47}

\* The upper-case hexadecimal digit of n (0..15), as "%02X" prints it.
HexDigit(n) == IF n < 10 THEN 48 + n ELSE 55 + n

\* Hexadecimal digits unquote() accepts, in either case.
IsHex(c) == c \in 48..57 \/ c \in 65..70 \/ c \in 97..102

HexVal(c) == IF c \in 48..57 THEN c - 48 ELSE IF c \in 65..70 THEN c - 55 ELSE c - 87

\* One character percent-encoded (ASCII only: one byte per character).
QuoteChar(c) ==
  IF IsUnreserved(c) THEN <<c>> ELSE <<37, HexDigit(c \div 16), HexDigit(c % 16)>>

RECURSIVE UrlQuote(_)
UrlQuote(s) == IF s = <<>> THEN <<>> ELSE QuoteChar(Head(s)) \o UrlQuote(Tail(s))

\* A decoded byte as text: a byte that is not ASCII is not well-formed UTF-8 on
\* its own and decodes to U+FFFD (errors = "replace").
DecodeByte(b) == IF b < 128 THEN b ELSE 65533

RECURSIVE UrlUnquote(_)
\* "%" followed by two hex digits is one byte; any other "%" stays as it is.
UrlUnquote(s) ==
  IF s = <<>> THEN <<>>
  ELSE IF Head(s) = 37 /\ Len(s) >= 3 /\ IsHex(s[2]) /\ IsHex(s[3])
       THEN <<DecodeByte(16 * HexVal(s[2]) + HexVal(s[3]))>>
              \o UrlUnquote(SubSeq(s, 4, Len(s)))
       ELSE <<Head(s)>> \o UrlUnquote(Tail(s))

\* str.replace(old, new) for a one-character old.
Replace(s, old, new) == [i \in DOMAIN s |-> IF s[i] = old THEN new ELSE s[i]]

quote_email_address(email_addr, percent_quote_char) ==
  Replace(UrlQuote(email_addr), 37, percent_quote_char)

unquote_email_address(email_addr, percent_quote_char) ==
  UrlUnquote(Replace(email_addr, percent_quote_char, 37))

(***************************************************************************)
(* src/utils/config.py: get_config_value.  A Config is a function from     *)
(* keys to values; a key outside its domain raises KeyError / ConfigError. *)
(***************************************************************************)
\* None, as a default or a missing dictionary entry.
None == [kind |-> "none"]

\* A variant of get_config_value: the legacy name is looked up first.
get_config_value_LegacyFirst(cfg, key, default) ==
  IF ("dmarc." \o key) \in DOMAIN cfg THEN cfg["dmarc." \o key]
  ELSE IF key \in DOMAIN cfg THEN cfg[key]
  ELSE default

get_config_value(cfg, key, default) ==
  IF key \in DOMAIN cfg THEN cfg[key]
  ELSE IF ("dmarc." \o key) \in DOMAIN cfg THEN cfg["dmarc." \o key]
  ELSE default

(***************************************************************************)
(* check_required_headers.                                                 *)
(***************************************************************************)
\* Characters str.strip() removes (the ASCII ones).
Whitespace == {9, 10, 11, 12, 13, 28, 29, 30, 31, 32}

RECURSIVE LStrip(_)
LStrip(s) == IF s # <<>> /\ Head(s) \in Whitespace THEN LStrip(Tail(s)) ELSE s

RECURSIVE RStrip(_)
RStrip(s) ==
  IF s # <<>> /\ s[Len(s)] \in Whitespace THEN RStrip(SubSeq(s, 1, Len(s) - 1)) ELSE s

\* A variant of Strip: str.lstrip() in its place.
Strip_LeftOnly(s) == LStrip(s)

\* str.strip()
Strip(s) == RStrip(LStrip(s))

\* A required value: True, a string, a list of strings, or anything else
\* (None when the header has no entry), which matches nothing.
ReqTrue == [kind |-> "true"]
ReqOther == [kind |-> "other"]
ReqStr(v) == [kind |-> "str", val |-> v]
ReqList(vs) == [kind |-> "list", val |-> vs]

\* dict.get(name, None)
DictGet(d, name) == IF name \in DOMAIN d THEN d[name] ELSE None

\* The condition of the if statement, processor.py lines 32-36.
RequirementMet(required_value, stripped_header) ==
  \/ required_value.kind = "true"
  \/ required_value.kind = "str" /\ stripped_header = required_value.val
  \/ required_value.kind = "list"
       /\ \E k \in DOMAIN required_value.val : required_value.val[k] = stripped_header

RECURSIVE RequiredHeadersLoop(_, _, _)
\* The for loop over headers from entry i on; False when it runs out.
RequiredHeadersLoop(required, headers, i) ==
  IF i > Len(headers) THEN FALSE
  ELSE LET header_entry == headers[i]
           required_value == DictGet(required, header_entry.name)
           stripped_header == Strip(header_entry.value)
       IN  IF RequirementMet(required_value, stripped_header) THEN TRUE
           ELSE RequiredHeadersLoop(required, headers, i + 1)

check_required_headers(required_config, headers) ==
  IF "header" \notin DOMAIN required_config THEN TRUE
  ELSE RequiredHeadersLoop(required_config["header"], headers, 1)

(***************************************************************************)
(* check_dmarc_rejection / check_all_dmarc_rejections.  The answer of      *)
(* dmarc.get_dmarc_record(domain) is either a record                       *)
(*   [kind |-> "record", location, tags]   (tags: a function from tag      *)
(*   names to values; "sp" may be missing), or an exception                *)
(*   [kind |-> "DMARCError"], [kind |-> "Exception"] (any other failure).  *)
(***************************************************************************)
\* What a call gives: a value returned, or an exception raised.
Return(v) == [exc |-> "none", val |-> v]
Raise(e) == [exc |-> e, val |-> FALSE]

no_mail_values == {"reject", "quarantine"}

\* A variant of check_dmarc_rejection: the test for a subdomain inverted.
check_dmarc_rejection_Inverted(domain, answer) ==
  IF answer.kind = "DMARCError" THEN Return(FALSE)
  ELSE IF answer.kind # "record" THEN Raise(answer.kind)
  ELSE LET is_subdomain == answer.location = domain
       IN  IF ~is_subdomain /\ answer.tags["p"] \in no_mail_values THEN Return(TRUE)
           ELSE IF is_subdomain /\ "sp" \notin DOMAIN answer.tags THEN Raise("KeyError")
           ELSE IF is_subdomain /\ answer.tags["sp"] \in no_mail_values THEN Return(TRUE)
           ELSE Return(FALSE)

check_dmarc_rejection(domain, answer) ==
  IF answer.kind = "DMARCError" THEN Return(FALSE)
  ELSE IF answer.kind # "record" THEN Raise(answer.kind)
  ELSE LET is_subdomain == answer.location # domain
       IN  IF ~is_subdomain /\ answer.tags["p"] \in no_mail_values THEN Return(TRUE)
           ELSE IF is_subdomain /\ "sp" \notin DOMAIN answer.tags THEN Raise("KeyError")
           ELSE IF is_subdomain /\ answer.tags["sp"] \in no_mail_values THEN Return(TRUE)
           ELSE Return(FALSE)

\* A variant of AllRejectionsBody: a result that is not False, in place of
\* a result that is False, ends the loop.
AllRejectionsBody_Any(r) ==
  IF r.exc # "none" THEN "raise"
  ELSE IF r.val # FALSE THEN "return"
  ELSE "continue"

\* One pass of the loop body of check_all_dmarc_rejections on the result r of
\* check_dmarc_rejection: "raise" (the exception passes through), "return"
\* (return False) or "continue".
AllRejectionsBody(r) ==
  IF r.exc # "none" THEN "raise"
  ELSE IF r.val = FALSE THEN "return"
  ELSE "continue"

RECURSIVE check_all_dmarc_rejections(_, _)
\* oracle: the answer of get_dmarc_record for each domain.
check_all_dmarc_rejections(domains, oracle) ==
  IF domains = <<>> THEN Return(TRUE)
  ELSE LET r == check_dmarc_rejection(Head(domains), oracle[Head(domains)])
           step == AllRejectionsBody(r)
       IN  IF step = "raise" THEN r
           ELSE IF step = "return" THEN Return(FALSE)
           ELSE check_all_dmarc_rejections(Tail(domains), oracle)

(***************************************************************************)
(* Addresses.                                                              *)
(***************************************************************************)
\* The index of the first c in s, 0 when there is none.
IndexOf(s, c) ==
  IF \E i \in DOMAIN s : s[i] = c THEN CHOOSE i \in DOMAIN s : s[i] = c /\ \A j \in 1..(i - 1) : s[j] # c
  ELSE 0

RECURSIVE Split(_, _, _)
\* str.split(sep, maxsplit) for a one-character sep.
Split(s, sep, maxsplit) ==
  LET i == IndexOf(s, sep)
  IN  IF maxsplit = 0 \/ i = 0 THEN <<s>>
      ELSE <<SubSeq(s, 1, i - 1)>> \o Split(SubSeq(s, i + 1, Len(s)), sep, maxsplit - 1)

\* extract_domain gives False for an address without "@".
NoDomain == <<-1>>

extract_domain(email_addr) ==
  IF IndexOf(email_addr, 64) # 0 THEN Split(email_addr, 64, 2)[2] ELSE NoDomain

extract_localpart(email_addr) ==
  IF IndexOf(email_addr, 64) # 0 THEN Split(email_addr, 64, 2)[1] ELSE email_addr

\* email._header_value_parser: SPECIALS = '()<>@,:;.\"[]', and DOT_ATOM_ENDS,
\* the specials but ".", with space and tab.
SPECIALS == {40, 41, 60, 62, 64, 44, 58, 59, 46, 92, 34, 91, 93}
DOT_ATOM_ENDS == (SPECIALS \ {46}) \cup {32, 9}

RECURSIVE EscapeQuoted(_)
EscapeQuoted(s) ==
  IF s = <<>> THEN <<>>
  ELSE (IF Head(s) \in {92, 34} THEN <<92, Head(s)>> ELSE <<Head(s)>>)
         \o EscapeQuoted(Tail(s))

\* email._header_value_parser.quote_string
quote_string(s) == <<34>> \o EscapeQuoted(s) \o <<34>>

\* Address.addr_spec
AddrSpec(username, domain) ==
  LET lp == IF \E i \in DOMAIN username : username[i] \in DOT_ATOM_ENDS
            THEN quote_string(username) ELSE username
  IN  IF domain # <<>> THEN lp \o <<64>> \o domain
      ELSE IF lp = <<>> THEN <<60, 62>>
      ELSE lp

\* str(Address(display_name, username, domain))
AddressStr(display_name, username, domain) ==
  LET disp == IF \E i \in DOMAIN display_name : display_name[i] \in SPECIALS
              THEN quote_string(display_name) ELSE display_name
      spec == AddrSpec(username, domain)
  IN  IF disp # <<>>
      THEN disp \o <<32, 60>> \o (IF spec = <<60, 62>> THEN <<>> ELSE spec) \o <<62>>
      ELSE spec

\* email: a pair [name, addr] as getaddresses gives it.
rewrite_email_address(email, domain, quote_char) ==
  AddressStr(email.name, quote_email_address(email.addr, quote_char), domain)

RECURSIVE StrReplace(_, _, _)
\* str.replace(old, new) for an old of any length but 0: the occurrences of
\* old from the left, none overlapping another.
StrReplace(s, old, new) ==
  IF Len(s) < Len(old) THEN s
  ELSE IF SubSeq(s, 1, Len(old)) = old
       THEN new \o StrReplace(SubSeq(s, Len(old) + 1, Len(s)), old, new)
       ELSE <<Head(s)>> \o StrReplace(Tail(s), old, new)

\* atext of RFC 5322, and "."
IsAtext(c) ==
  \/ c \in 48..57 \/ c \in 65..90 \/ c \in 97..122
  \/ c \in {33, 35, 36, 37, 38, 39, 42, 43, 45, 47, 61, 63, 94, 95, 96, 123, 124, 125, 126}

IsDotAtom(t) ==
  /\ t # <<>>
  /\ \A i \in DOMAIN t : IsAtext(t[i]) \/ t[i] = 46
  /\ t[1] # 46 /\ t[Len(t)] # 46
  /\ \A i \in 1..(Len(t) - 1) : ~(t[i] = 46 /\ t[i + 1] = 46)

\* Address(display_name, addr_spec = t): the addr-spec is parsed, and what
\* the parser finds wrong with it is raised.  An addr-spec of dot-atoms
\* around one "@" gives the address; one without "@" has no domain.
AddressOfAddrSpec(display_name, t) ==
  LET at == IndexOf(t, 64)
      username == SubSeq(t, 1, at - 1)
      domain == SubSeq(t, at + 1, Len(t))
  IN  IF t = <<>> THEN Raise("IndexError")
      ELSE IF at = 0 THEN Raise("InvalidHeaderDefect")
      ELSE IF IsDotAtom(username) /\ IsDotAtom(domain)
      THEN Return(AddressStr(display_name, username, domain))
      ELSE Raise("HeaderParseError")

\* An argument that is a str (None is the other argument there is).
PyStr(v) == [kind |-> "str", val |-> v]

\* unrewrite_email_address(email, *args): the function has the parameters
\* email and quote_char (default "="); a call binds its positional arguments
\* to them in order, and may not have more.  The quote, as
\* unquote_email_address replaces it (line 151), is a string of any length.
unrewrite_email_address(email, args) ==
  IF Len(args) > 1 THEN Raise("TypeError")
  ELSE LET quote_char == IF args = <<>> THEN PyStr(<<Ord["="]>>) ELSE args[1]
           localpart == extract_localpart(email.addr)
       IN  IF quote_char = None THEN Raise("TypeError")
           ELSE AddressOfAddrSpec(email.name,
                  UrlUnquote(StrReplace(localpart, quote_char.val, <<Ord["%"]>>)))

\* One mailbox of a From value: "addr-spec", or "phrase <addr-spec>".
ParseMailbox(piece) ==
  LET t == Strip(piece)
      lt == IndexOf(t, 60)
      gt == IndexOf(t, 62)
  IN  IF lt # 0 /\ gt > lt
      THEN [name |-> Strip(SubSeq(t, 1, lt - 1)), addr |-> SubSeq(t, lt + 1, gt - 1)]
      ELSE [name |-> <<>>, addr |-> t]

\* email.utils.getaddresses([value]) on a well-formed mailbox list without
\* quoted strings, comments or groups: the (name, addr) pairs in order; the
\* empty value has no mailbox.
getaddresses(value) ==
  IF value = <<>> THEN <<>>
  ELSE LET pieces == Split(value, 44, Len(value))
       IN  [i \in DOMAIN pieces |-> ParseMailbox(pieces[i])]

\* ", ".join(parts)
RECURSIVE Join(_)
Join(parts) ==
  IF parts = <<>> THEN <<>>
  ELSE IF Len(parts) = 1 THEN parts[1]
  ELSE parts[1] \o <<44, 32>> \o Join(Tail(parts))

RECURSIVE FilterDomains(_)
\* filter(None, [...]): the domains that are not False (nor empty).
FilterDomains(ds) ==
  IF ds = <<>> THEN <<>>
  ELSE (IF Head(ds) = NoDomain \/ Head(ds) = <<>> THEN <<>> ELSE <<Head(ds)>>)
         \o FilterDomains(Tail(ds))

(***************************************************************************)
(* Messages and configurations the handler is run on.                      *)
(***************************************************************************)
\* Header names, and str.lower() of each.
Lower ==
  [n \in {"From", "from", "X-Original-From", "x-original-from", "X-H", "x-h", "Y"} |->
     CASE n \in {"From", "from"} -> "from"
       [] n \in {"X-Original-From", "x-original-from"} -> "x-original-from"
       [] n \in {"X-H", "x-h"} -> "x-h"
       [] OTHER -> "y"]

Hdr(n, v) == [name |-> n, value |-> v]

\* bytes.decode() raises UnicodeDecodeError on a byte that is not UTF-8; the
\* model's values are ASCII but for the byte 255, which never is.
Decodable(bytes) == \A i \in DOMAIN bytes : bytes[i] < 128

\* The headers a message is made of.
HeaderPool ==
  { Hdr("From", Str(<<" ", "N", " ", "<", "a", "@", "d", ">">>)),
    Hdr("from", Str(<<" ", "a", "@", "d", ",", " ", "b", "@", "e">>)),
    Hdr("From", Str(<<" ", "x">>)),
    Hdr("From", <<255>>),
    Hdr("X-Original-From", Str(<<" ", "M", " ", "<", "b", "@", "e", ">">>)),
    Hdr("x-original-from", <<>>),
    Hdr("X-H", Str(<<" ", "V", " ">>)),
    Hdr("X-H", Str(<<" ", "W">>)) }

Messages == SeqsUpTo(HeaderPool, MaxHeaders)

\* The empty dictionary.
EmptyDict == [k \in {} |-> None]

\* Configurations: the rewrite domain is always set; each other key is either
\* missing or set, "rewrite.reverse" also under its legacy name.
Configs ==
  { ("domain" :> Str(<<"r", ".", "x">>)) @@ req @@ rev @@ fwd @@ qc :
      req \in { EmptyDict,
                "rewrite.require" :> ("header" :> ("X-H" :> ReqStr(Str(<<"V">>)))) },
      rev \in { EmptyDict, "dmarc.rewrite.reverse" :> FALSE },
      fwd \in { EmptyDict, "rewrite.forward" :> FALSE },
      qc  \in { EmptyDict, "rewrite.quote_char" :> Ord["~"] } }

\* What dmarc.get_dmarc_record may answer for a domain.
Policies == {"none", "quarantine", "reject"}

OracleAnswers(locations) ==
  { [kind |-> "record", location |-> l, tags |-> t] :
      l \in locations,
      t \in { ("p" :> p) : p \in Policies }
              \cup { ("p" :> p) @@ ("sp" :> sp) : p \in Policies, sp \in Policies } }
  \cup { [kind |-> "DMARCError"], [kind |-> "Exception"] }

(***************************************************************************)
(* State.                                                                  *)
(***************************************************************************)
VARIABLES
  codec,                 \* one run of the address codec: [pc, x, q, enc, dec]
  gate,                  \* one call of check_required_headers
  dm,                    \* one call of check_all_dmarc_rejections
  conf,                  \* one call of get_config_value
  addr,                  \* one call of a function on addresses
  cfg,                   \* services["app_config"]
  message,               \* the header block as received: a sequence of Hdr
  block,                 \* the live header block of the session
  pc,                    \* where handle() is
  branch,                \* the branch handle() took
  header_view,           \* handle's local headers: the view of session.headers
  mail_headers,          \* handle's local of that name
  from_header,           \* position in message of the header, 0 for None
  from_value,            \* Unbound until assigned
  original_from_header,
  original_from_value,
  required_ok,           \* what check_required_headers returned
  todo,                  \* the domains check_all_dmarc_rejections has yet to check
  lookups,               \* the PolicyOracle calls made: <<domain, result>>
  calls,                 \* the Session mutations called: [op, ref, name, value, anchor, ok]
  verdict,               \* what handle() returned
  raised,                \* the exception that left handle()
  loop,                  \* the event loop: the task that runs, the tasks that wait
  relay                  \* the passes of one message through the milter

locals == <<header_view, mail_headers, from_header, from_value, original_from_header,
            original_from_value>>
handler == <<cfg, message, block, pc, branch, locals, required_ok, todo, lookups,
             calls, verdict, raised>>
\* What no step of handle() writes: the runs of the functions on their own,
\* the event loop's table of tasks, and the passes of a message.
pure == <<codec, gate, dm, conf, addr, loop, relay>>
vars == <<pure, handler>>

\* A local that was never assigned.
Unbound == <<-1>>

\* session.headers before handle() enters it: entered counts the times the
\* view was entered, read lists the positions of the headers it yielded, open
\* tells whether the view is held, exc is the exception leaving the block.
ViewClosed == [entered |-> 0, read |-> <<>>, open |-> FALSE, exc |-> "none"]

\* The event loop with no task: handle() is run on one message, or not at all.
LoopIdle == [current |-> 0, parked |-> <<>>]

\* most times one message passes through the milter
MaxPasses == 2

\* A message that passes once: nothing is kept of it.
RelayIdle == [pass |-> 0, original |-> <<>>, earlier |-> <<>>]

(***************************************************************************)
(* handle(): the per-message handler.                                      *)
(***************************************************************************)
\* The live header block of a message as received: each header with its
\* position in the message, by which the handler refers to it.
BlockOf(msg) == [i \in DOMAIN msg |-> [ref |-> i, name |-> msg[i].name, value |-> msg[i].value]]

HandlerIdle ==
  /\ cfg = EmptyDict /\ message = <<>> /\ block = <<>>
  /\ pc = "idle" /\ branch = "none"
  /\ header_view = ViewClosed
  /\ mail_headers = <<>> /\ from_header = 0 /\ from_value = Unbound
  /\ original_from_header = 0 /\ original_from_value = Unbound
  /\ required_ok = "unset" /\ todo = <<>> /\ lookups = <<>> /\ calls = <<>>
  /\ verdict = "none" /\ raised = "none"

HandlerInit ==
  /\ cfg \in Configs
  /\ message \in Messages
  /\ block = BlockOf(message)
  /\ pc = "start" /\ branch = "none"
  /\ header_view = ViewClosed
  /\ mail_headers = <<>> /\ from_header = 0 /\ from_value = Unbound
  /\ original_from_header = 0 /\ original_from_value = Unbound
  /\ required_ok = "unset" /\ todo = <<>> /\ lookups = <<>> /\ calls = <<>>
  /\ verdict = "none" /\ raised = "none"

RECURSIVE CaptureLoop_FirstWins(_, _, _)
\* A variant of CaptureLoop: a header named as an earlier one is not taken
\* in its place.
CaptureLoop_FirstWins(headers, i, st) ==
  IF i > Len(headers) THEN st
  ELSE LET header == headers[i]
       IN  IF ~Decodable(header.value) THEN [st EXCEPT !.exc = "UnicodeDecodeError"]
           ELSE LET header_entry == [name |-> header.name,
                                     lower_name |-> Lower[header.name],
                                     value |-> header.value]
                    st1 == IF header_entry.lower_name = "from" /\ st.from_header = 0
                           THEN [st EXCEPT !.from_header = i,
                                           !.from_value = header_entry.value]
                           ELSE IF header_entry.lower_name = "x-original-from"
                                   /\ st.original_from_header = 0
                           THEN [st EXCEPT !.original_from_header = i,
                                           !.original_from_value = header_entry.value]
                           ELSE st
                IN  CaptureLoop_FirstWins(headers, i + 1,
                                [st1 EXCEPT !.mail_headers = Append(@, header_entry)])

RECURSIVE CaptureLoop(_, _, _)
\* The async for loop of handle() from header i on.  st holds the locals and
\* exc, the exception that ended the loop.
CaptureLoop(headers, i, st) ==
  IF i > Len(headers) THEN st
  ELSE LET header == headers[i]
       IN  IF ~Decodable(header.value) THEN [st EXCEPT !.exc = "UnicodeDecodeError"]
           ELSE LET header_entry == [name |-> header.name,
                                     lower_name |-> Lower[header.name],
                                     value |-> header.value]
                    st1 == IF header_entry.lower_name = "from"
                           THEN [st EXCEPT !.from_header = i,
                                           !.from_value = header_entry.value]
                           ELSE IF header_entry.lower_name = "x-original-from"
                           THEN [st EXCEPT !.original_from_header = i,
                                           !.original_from_value = header_entry.value]
                           ELSE st
                IN  CaptureLoop(headers, i + 1,
                                [st1 EXCEPT !.mail_headers = Append(@, header_entry)])

\* return Accept()
Accept ==
  /\ pc' = "done"
  /\ verdict' = "Accept"
  /\ raised' = "none"

\* An exception leaves handle().
Escape(exc) ==
  /\ pc' = "raised"
  /\ verdict' = "none"
  /\ raised' = exc

\* Lines 261-282: the locals are set up, the view of the headers is entered
\* (async with, line 266) and the headers are read, once (async for, line
\* 267).  The view is held until the block is left.
Capture ==
  /\ pc = "start"
  /\ LET st == CaptureLoop(message, 1,
                 [mail_headers |-> <<>>, from_header |-> 0, from_value |-> Unbound,
                  original_from_header |-> 0, original_from_value |-> Unbound,
                  exc |-> "none"])
     IN  /\ mail_headers' = st.mail_headers
         /\ from_header' = st.from_header
         /\ from_value' = st.from_value
         /\ original_from_header' = st.original_from_header
         /\ original_from_value' = st.original_from_value
         /\ header_view' =
              [entered |-> header_view.entered + 1,
               read |-> header_view.read \o
                        [i \in 1..(Len(st.mail_headers) + IF st.exc # "none" THEN 1 ELSE 0)
                           |-> i],
               open |-> TRUE,
               exc |-> st.exc]
  /\ pc' = "release"
  /\ UNCHANGED <<pure, cfg, message, block, branch, required_ok, todo, lookups, calls,
                 verdict, raised>>

\* A variant of ReleaseHeaders: what follows the loop is inside the async
\* with block, so the view is still held when handle() goes on.
ReleaseHeaders_Held ==
  /\ pc = "release"
  /\ IF header_view.exc # "none"
     THEN header_view' = [header_view EXCEPT !.open = FALSE] /\ Escape(header_view.exc)
     ELSE pc' = "gate" /\ UNCHANGED <<header_view, verdict, raised>>
  /\ UNCHANGED <<pure, cfg, message, block, branch, mail_headers, from_header,
                 from_value, original_from_header, original_from_value, required_ok,
                 todo, lookups, calls>>

\* Line 282 to 284: the async with block is left and the view is released,
\* whether the loop ended or an exception leaves it.
ReleaseHeaders ==
  /\ pc = "release"
  /\ header_view' = [header_view EXCEPT !.open = FALSE]
  /\ IF header_view.exc # "none" THEN Escape(header_view.exc)
     ELSE pc' = "gate" /\ UNCHANGED <<verdict, raised>>
  /\ UNCHANGED <<pure, cfg, message, block, branch, mail_headers, from_header,
                 from_value, original_from_header, original_from_value, required_ok,
                 todo, lookups, calls>>

\* Lines 284-289.
required_config ==
  LET required_config_entry == get_config_value(cfg, "rewrite.require", None)
  IN  IF required_config_entry = None THEN EmptyDict ELSE required_config_entry

\* A variant of Gate: the result of check_required_headers is not acted on.
Gate_Ungated ==
  /\ pc = "gate"
  /\ LET ok == check_required_headers(required_config, mail_headers)
     IN  required_ok' = IF ok THEN "True" ELSE "False"
  /\ pc' = "branch"
  /\ UNCHANGED <<pure, cfg, message, block, branch, locals, todo, lookups, calls,
                 verdict, raised>>

\* Lines 291-293.
Gate ==
  /\ pc = "gate"
  /\ LET ok == check_required_headers(required_config, mail_headers)
     IN  /\ required_ok' = IF ok THEN "True" ELSE "False"
         /\ IF ~ok THEN Accept /\ branch' = "gated_out"
            ELSE pc' = "branch" /\ UNCHANGED <<verdict, raised, branch>>
  /\ UNCHANGED <<pure, cfg, message, block, locals, todo, lookups, calls>>

\* Lines 296-308: the branch taken.  Passing from_value to rewrite_forward
\* reads the local: UnboundLocalError when no From header assigned it.
Branch ==
  /\ pc = "branch"
  /\ IF original_from_header # 0 /\ get_config_value(cfg, "rewrite.reverse", TRUE)
     THEN pc' = "reverse" /\ branch' = "reverse" /\ UNCHANGED <<verdict, raised>>
     ELSE IF get_config_value(cfg, "rewrite.forward", TRUE)
     THEN /\ branch' = "forward"
          /\ IF from_value = Unbound THEN Escape("UnboundLocalError")
             ELSE pc' = "forward" /\ UNCHANGED <<verdict, raised>>
     ELSE Accept /\ branch' = "noop"
  /\ UNCHANGED <<pure, cfg, message, block, locals, required_ok, todo, lookups, calls>>


(***************************************************************************)
(* The Session's mutation primitives.  A call either takes effect or       *)
(* raises; the header block changes only when it takes effect.             *)
(***************************************************************************)
Call(op, ref, name, value, anchor, ok) ==
  [op |-> op, ref |-> ref, name |-> name, value |-> value, anchor |-> anchor, ok |-> ok]

\* session.headers.insert(Header(name, value), END)
InsertEnd(b, name, value) == Append(b, [ref |-> 0, name |-> name, value |-> value])

\* session.headers.update(header, value)
UpdateRef(b, ref, value) ==
  [i \in DOMAIN b |-> IF b[i].ref = ref THEN [b[i] EXCEPT !.value = value] ELSE b[i]]

RECURSIVE DeleteRef(_, _)
\* session.headers.delete(header)
DeleteRef(b, ref) ==
  IF b = <<>> THEN <<>>
  ELSE (IF Head(b).ref = ref THEN <<>> ELSE <<Head(b)>>) \o DeleteRef(Tail(b), ref)

(***************************************************************************)
(* rewrite_reverse.                                                        *)
(***************************************************************************)
\* A variant of ReverseGuard: when the guard fails, the forward rewrite is
\* attempted in its place.
ReverseGuard_FallsThrough ==
  /\ pc = "reverse"
  /\ IF original_from_header = 0 \/ original_from_value = <<>>
     THEN pc' = "forward" /\ UNCHANGED <<verdict, raised>>
     ELSE pc' = "rev_delete" /\ UNCHANGED <<verdict, raised>>
  /\ UNCHANGED <<pure, cfg, message, block, branch, locals, required_ok, todo,
                 lookups, calls>>

\* Lines 238-240: the guard.  Returning False, handle() accepts.
ReverseGuard ==
  /\ pc = "reverse"
  /\ IF original_from_header = 0 \/ original_from_value = <<>>
     THEN Accept
     ELSE pc' = "rev_delete" /\ UNCHANGED <<verdict, raised>>
  /\ UNCHANGED <<pure, cfg, message, block, branch, locals, required_ok, todo,
                 lookups, calls>>

\* Line 243.  Nothing catches an exception of the session here.
ReverseDelete ==
  /\ pc = "rev_delete"
  /\ \E ok \in BOOLEAN :
       /\ calls' = Append(calls, Call("delete", original_from_header, "", <<>>, "", ok))
       /\ IF ok
          THEN /\ block' = DeleteRef(block, original_from_header)
               /\ pc' = "rev_update"
               /\ UNCHANGED <<verdict, raised>>
          ELSE /\ block' = block
               /\ Escape("SessionError")
  /\ UNCHANGED <<pure, cfg, message, branch, locals, required_ok, todo, lookups>>

\* A variant of ReverseUpdate: the original value is stripped before it is
\* written back.
ReverseUpdate_Stripped ==
  /\ pc = "rev_update"
  /\ \E returns \in BOOLEAN :
       LET ok == returns /\ from_header # 0
           value == Strip(original_from_value)
       IN  /\ calls' = Append(calls, Call("update", from_header, "", value, "", ok))
           /\ block' = IF ok THEN UpdateRef(block, from_header, value) ELSE block
           /\ IF returns THEN Accept ELSE Escape("SessionError")
  /\ UNCHANGED <<pure, cfg, message, branch, locals, required_ok, todo, lookups>>

\* Line 244.  from_header is None when the message has no From header: no
\* header is updated then, whether the session raises or returns.
ReverseUpdate ==
  /\ pc = "rev_update"
  /\ \E returns \in BOOLEAN :
       LET ok == returns /\ from_header # 0
       IN  /\ calls' = Append(calls, Call("update", from_header, "", original_from_value, "", ok))
           /\ block' = IF ok THEN UpdateRef(block, from_header, original_from_value)
                       ELSE block
           /\ IF returns THEN Accept ELSE Escape("SessionError")
  /\ UNCHANGED <<pure, cfg, message, branch, locals, required_ok, todo, lookups>>

(***************************************************************************)
(* rewrite_forward.                                                        *)
(***************************************************************************)
\* Line 176.
header_from_addresses == getaddresses(from_value)

\* Lines 178-180.
from_domains ==
  FilterDomains([i \in DOMAIN header_from_addresses |->
                   extract_domain(header_from_addresses[i].addr)])

\* A variant of replacement_from: without the leading space.
replacement_from_NoSpace ==
  LET replacement_addresses ==
        [i \in DOMAIN header_from_addresses |->
           rewrite_email_address(header_from_addresses[i],
                                 get_config_value(cfg, "domain", None),
                                 get_config_value(cfg, "rewrite.quote_char", Ord["="]))]
  IN  Join(replacement_addresses)

\* Lines 192-201.
replacement_from ==
  LET replacement_addresses ==
        [i \in DOMAIN header_from_addresses |->
           rewrite_email_address(header_from_addresses[i],
                                 get_config_value(cfg, "domain", None),
                                 get_config_value(cfg, "rewrite.quote_char", Ord["="]))]
  IN  <<32>> \o Join(replacement_addresses)

\* A location a DMARC record of another (organizational) domain is found at.
OrgDomain == Str(<<"x">>)

\* Lines 176-183: the addresses are parsed and check_all_dmarc_rejections starts.
ForwardParse ==
  /\ pc = "forward"
  /\ todo' = from_domains
  /\ pc' = "fwd_check"
  /\ UNCHANGED <<pure, cfg, message, block, branch, locals, required_ok, lookups,
                 calls, verdict, raised>>

\* A variant of ForwardLookup: only a result of False ends the loop; after an
\* exception the next domain is asked.
ForwardLookup_RaiseContinues ==
  /\ pc = "fwd_check"
  /\ todo # <<>>
  /\ \E answer \in OracleAnswers({Head(todo), OrgDomain}) :
       LET r == check_dmarc_rejection(Head(todo), answer)
       IN  /\ lookups' = Append(lookups, [domain |-> Head(todo), result |-> r])
           /\ IF AllRejectionsBody(r) # "return"
              THEN todo' = Tail(todo) /\ UNCHANGED <<pc, verdict, raised>>
              ELSE todo' = todo /\ Accept
  /\ UNCHANGED <<pure, cfg, message, block, branch, locals, required_ok, calls>>

\* One pass of the loop of check_all_dmarc_rejections (lines 100-103), with the
\* oracle's answer.  An exception is caught at line 218, and rewrite_forward
\* returns; so it does when a domain does not reject (line 186).
ForwardLookup ==
  /\ pc = "fwd_check"
  /\ todo # <<>>
  /\ \E answer \in OracleAnswers({Head(todo), OrgDomain}) :
       LET r == check_dmarc_rejection(Head(todo), answer)
       IN  /\ lookups' = Append(lookups, [domain |-> Head(todo), result |-> r])
           /\ IF AllRejectionsBody(r) = "continue"
              THEN todo' = Tail(todo) /\ UNCHANGED <<pc, verdict, raised>>
              ELSE todo' = todo /\ Accept
  /\ UNCHANGED <<pure, cfg, message, block, branch, locals, required_ok, calls>>

\* Lines 105-106, 185-213: every domain rejects; the original From is inserted
\* as X-Original-From.  An exception of the session is caught at line 218.
ForwardInsert ==
  /\ pc = "fwd_check"
  /\ todo = <<>>
  /\ \E ok \in BOOLEAN :
       /\ calls' = Append(calls, Call("insert", 0, "X-Original-From", from_value, "END", ok))
       /\ IF ok
          THEN /\ block' = InsertEnd(block, "X-Original-From", from_value)
               /\ pc' = "fwd_update"
               /\ UNCHANGED <<verdict, raised>>
          ELSE /\ block' = block
               /\ Accept
  /\ UNCHANGED <<pure, cfg, message, branch, locals, required_ok, todo, lookups>>

\* Line 214, and the return of lines 216 or 221.
ForwardUpdate ==
  /\ pc = "fwd_update"
  /\ \E ok \in BOOLEAN :
       /\ calls' = Append(calls, Call("update", from_header, "", replacement_from, "", ok))
       /\ block' = IF ok THEN UpdateRef(block, from_header, replacement_from) ELSE block
       /\ Accept
  /\ UNCHANGED <<pure, cfg, message, branch, locals, required_ok, todo, lookups>>

handle ==
  \/ Capture \/ ReleaseHeaders \/ Gate \/ Branch
  \/ ReverseGuard \/ ReverseDelete \/ ReverseUpdate
  \/ ForwardParse \/ ForwardLookup \/ ForwardInsert \/ ForwardUpdate

(***************************************************************************)
(* The address codec on its own: quote, then unquote.                      *)
(***************************************************************************)
\* Characters of the address strings: an unreserved letter, the two quote
\* characters of the tests, the characters quote() escapes, digits, "/".
CodecAlphabet == {Ord[c] : c \in {"a", "~", "@", "=", "%", "4", "0", "/"}}

\* Quote symbols tried.
QuoteSymbols == {Ord[c] : c \in {"=", "~", "%", "4", "a", "/", "@"}}

CodecIdle == [pc |-> "idle", x |-> <<>>, q |-> 0, enc |-> <<>>, dec |-> <<>>]

CodecInit ==
  \E x \in SeqsUpTo(CodecAlphabet, MaxLen), q \in QuoteSymbols :
    codec = [pc |-> "start", x |-> x, q |-> q, enc |-> <<>>, dec |-> <<>>]

CodecQuote ==
  /\ codec.pc = "start"
  /\ codec' = [codec EXCEPT !.pc = "quoted",
                            !.enc = quote_email_address(codec.x, codec.q)]
  /\ UNCHANGED <<gate, dm, conf, addr, handler, loop, relay>>

CodecUnquote ==
  /\ codec.pc = "quoted"
  /\ codec' = [codec EXCEPT !.pc = "done",
                            !.dec = unquote_email_address(codec.enc, codec.q)]
  /\ UNCHANGED <<gate, dm, conf, addr, handler, loop, relay>>

\* unquote_email_address of the string itself, which nothing has quoted.
CodecUnquoteInput ==
  /\ codec.pc = "start"
  /\ codec' = [codec EXCEPT !.pc = "unquoted",
                            !.dec = unquote_email_address(codec.x, codec.q)]
  /\ UNCHANGED <<gate, dm, conf, addr, handler, loop, relay>>

(***************************************************************************)
(* check_required_headers on its own.                                      *)
(***************************************************************************)
GateIdle == [pc |-> "idle", config |-> EmptyDict, headers |-> <<>>, result |-> FALSE]

\* Requirements a header name may be given.
Requirements ==
  { ReqTrue, ReqOther, ReqStr(Str(<<"V">>)), ReqStr(Str(<<" ", "V">>)),
    ReqList(<<Str(<<"V">>), Str(<<"W">>)>>), ReqList(<<>>) }

\* The "header" mappings: each of the names X-H and Y has a requirement or none.
HeaderMappings ==
  { a @@ b : a \in {EmptyDict} \cup { "X-H" :> r : r \in Requirements },
             b \in {EmptyDict} \cup { "Y" :> r : r \in Requirements } }

\* required_config: no "header" entry (empty, or another entry only), or one.
GateConfigs ==
  { EmptyDict, "envelope" :> EmptyDict } \cup { "header" :> m : m \in HeaderMappings }

\* Captured headers: the name in either case, the value with and without
\* whitespace around it.
GateHeaderPool ==
  { [name |-> n, lower_name |-> Lower[n], value |-> v] :
      n \in {"X-H", "x-h", "Y"},
      v \in { Str(<<"V">>), Str(<<" ", "V", " ">>), Str(<<"W">>), <<>> } }

GateInit ==
  \E c \in GateConfigs, hs \in SeqsUpTo(GateHeaderPool, MaxGateHeaders) :
    gate = [pc |-> "start", config |-> c, headers |-> hs, result |-> FALSE]

GateCheck ==
  /\ gate.pc = "start"
  /\ gate' = [gate EXCEPT !.pc = "done",
                          !.result = check_required_headers(gate.config, gate.headers)]
  /\ UNCHANGED <<codec, dm, conf, addr, handler, loop, relay>>

(***************************************************************************)
(* check_all_dmarc_rejections on its own, against an oracle that answers   *)
(* the same for a domain whenever it is asked.                             *)
(***************************************************************************)
DmIdle ==
  [pc |-> "idle", oracle |-> EmptyDict, domains |-> <<>>, i |-> 0,
   results |-> <<>>, result |-> Return(FALSE)]

\* The domains asked about; the DMARC record of one may be located at the other.
DmDomains == {Str(<<"d">>), Str(<<"e">>)}

DmInit ==
  \E o \in [DmDomains -> OracleAnswers(DmDomains)], ds \in SeqsUpTo(DmDomains, MaxDomains) :
    dm = [pc |-> "loop", oracle |-> o, domains |-> ds, i |-> 1,
          results |-> <<>>, result |-> Return(FALSE)]

\* One pass of the for loop, lines 100-103.
DmStep ==
  /\ dm.pc = "loop"
  /\ dm.i <= Len(dm.domains)
  /\ LET domain == dm.domains[dm.i]
         r == check_dmarc_rejection(domain, dm.oracle[domain])
         step == AllRejectionsBody(r)
     IN  dm' = [dm EXCEPT !.results = Append(@, [domain |-> domain, result |-> r]),
                          !.i = @ + 1,
                          !.pc = IF step = "continue" THEN "loop" ELSE "done",
                          !.result = IF step = "raise" THEN r ELSE Return(FALSE)]
  /\ UNCHANGED <<codec, gate, conf, addr, handler, loop, relay>>

\* Lines 105-106.
DmReturn ==
  /\ dm.pc = "loop"
  /\ dm.i > Len(dm.domains)
  /\ dm' = [dm EXCEPT !.pc = "done", !.result = Return(TRUE)]
  /\ UNCHANGED <<codec, gate, conf, addr, handler, loop, relay>>

(***************************************************************************)
(* get_config_value on its own.                                            *)
(***************************************************************************)
ConfIdle == [pc |-> "idle", cfg |-> EmptyDict, key |-> "", default |-> None, result |-> None]

\* The keys asked for, and the keys a configuration may hold: each key asked
\* for, and each under the legacy name.
ConfKeys == {"k", "j", "dmarc.k"}
ConfEntries == ConfKeys \cup {"dmarc." \o k : k \in ConfKeys}

\* The values of a configuration, and the defaults of a call (None when the
\* call gives none).
ConfValue(v) == [kind |-> "value", val |-> v]
ConfValues == {ConfValue("A"), ConfValue("B")}
ConfDefaults == {None, ConfValue("D")}

ConfInit ==
  \E present \in SUBSET ConfEntries :
    \E c \in [present -> ConfValues], k \in ConfKeys, d \in ConfDefaults :
      conf = [pc |-> "start", cfg |-> c, key |-> k, default |-> d, result |-> None]

ConfGet ==
  /\ conf.pc = "start"
  /\ conf' = [conf EXCEPT !.pc = "done",
                          !.result = get_config_value(conf.cfg, conf.key, conf.default)]
  /\ UNCHANGED <<codec, gate, dm, addr, handler, loop, relay>>

(***************************************************************************)
(* Functions on addresses on their own.                                    *)
(***************************************************************************)
AddrIdle ==
  [pc |-> "idle", op |-> "none", s |-> <<>>, name |-> <<>>, args |-> <<>>,
   result |-> None]

\* Address strings: up to MaxLen characters, "@" among them.
AddrAlphabet == {Ord[c] : c \in {"a", "b", "@"}}

\* Cloaked addresses, by the default quote and by another.
CloakedPool ==
  { Str(<<"a", "=", "4", "0", "d", "@", "r", ".", "x">>),
    Str(<<"a", "~", "4", "0", "d", "@", "r", ".", "x">>) }

\* The arguments of a call of unrewrite_email_address after the email: none,
\* a domain (None, the domain of the cloaked address, another), or a domain
\* and a quote character.
UnrewriteDomains == {None, PyStr(Str(<<"r", ".", "x">>)), PyStr(Str(<<"d">>))}
UnrewriteQuotes == {PyStr(<<Ord["="]>>), PyStr(<<Ord["~"]>>)}
UnrewriteArgs ==
  {<<>>} \cup {<<d>> : d \in UnrewriteDomains}
         \cup {<<d, q>> : d \in UnrewriteDomains, q \in UnrewriteQuotes}

AddrInit ==
  \/ \E s \in SeqsUpTo(AddrAlphabet, MaxLen) :
       addr = [pc |-> "start", op |-> "extract", s |-> s, name |-> <<>>,
               args |-> <<>>, result |-> None]
  \/ \E s \in CloakedPool, n \in {<<>>, <<Ord["N"]>>}, a \in UnrewriteArgs :
       addr = [pc |-> "start", op |-> "unrewrite", s |-> s, name |-> n,
               args |-> a, result |-> None]

\* extract_localpart and extract_domain of the string.
AddrExtract ==
  /\ addr.pc = "start" /\ addr.op = "extract"
  /\ addr' = [addr EXCEPT !.pc = "done",
                          !.result = [localpart |-> extract_localpart(addr.s),
                                      domain |-> extract_domain(addr.s)]]
  /\ UNCHANGED <<codec, gate, dm, conf, handler, loop, relay>>

AddrUnrewrite ==
  /\ addr.pc = "start" /\ addr.op = "unrewrite"
  /\ addr' = [addr EXCEPT !.pc = "done",
                          !.result = unrewrite_email_address(
                                       [name |-> addr.name, addr |-> addr.s], addr.args)]
  /\ UNCHANGED <<codec, gate, dm, conf, handler, loop, relay>>

(***************************************************************************)
(* The server.  dmarcation.py runs handle() for every connection as a task *)
(* of one event loop (anyio.run(main), listener.serve(handle)).  One task  *)
(* runs at a time, and another task runs only when the running one is      *)
(* suspended in an await or has ended.  The locals of the running task are *)
(* the handler's variables; loop.parked keeps those of the other tasks.    *)
(* services["app_config"] (cfg) is the one object all tasks refer to.      *)
(***************************************************************************)
\* most connections served at a time
MaxTx == 2

Tx == 1..MaxTx

\* The frame of the running task: its session and the locals of handle().
LiveFrame ==
  [message |-> message, block |-> block, pc |-> pc, branch |-> branch,
   header_view |-> header_view,
   mail_headers |-> mail_headers, from_header |-> from_header,
   from_value |-> from_value, original_from_header |-> original_from_header,
   original_from_value |-> original_from_value, required_ok |-> required_ok,
   todo |-> todo, lookups |-> lookups, calls |-> calls, verdict |-> verdict,
   raised |-> raised]

\* The frame of a task that has not run yet, for a connection whose message
\* is msg (HandlerInit, as a record).
StartFrame(msg) ==
  [message |-> msg, block |-> BlockOf(msg), pc |-> "start", branch |-> "none",
   header_view |-> ViewClosed,
   mail_headers |-> <<>>, from_header |-> 0, from_value |-> Unbound,
   original_from_header |-> 0, original_from_value |-> Unbound,
   required_ok |-> "unset", todo |-> <<>>, lookups |-> <<>>, calls |-> <<>>,
   verdict |-> "none", raised |-> "none"]

\* The entry of the running task in loop.parked: its frame is the live one.
NoFrame == [pc |-> "running"]

\* The messages of the connections.
TxMessages ==
  { <<Hdr("From", Str(<<" ", "N", " ", "<", "a", "@", "d", ">">>))>>,
    <<Hdr("From", Str(<<" ", "N", " ", "<", "a", "@", "d", ">">>)),
      Hdr("X-Original-From", Str(<<" ", "M", " ", "<", "b", "@", "e", ">">>))>>,
    <<Hdr("X-H", Str(<<" ", "V", " ">>)),
      Hdr("from", Str(<<" ", "a", "@", "d", ",", " ", "b", "@", "e">>))>> }

\* The configurations of the server: the defaults, with and without a
\* required header.
TxConfigs ==
  { ("domain" :> Str(<<"r", ".", "x">>)) @@ req :
      req \in { EmptyDict,
                "rewrite.require" :> ("header" :> ("X-H" :> ReqStr(Str(<<"V">>)))) } }

ServerInit ==
  \E c \in TxConfigs, ms \in [Tx -> TxMessages] :
    /\ cfg = c
    /\ message = ms[1]
    /\ block = BlockOf(ms[1])
    /\ pc = "start" /\ branch = "none"
    /\ header_view = ViewClosed
    /\ mail_headers = <<>> /\ from_header = 0 /\ from_value = Unbound
    /\ original_from_header = 0 /\ original_from_value = Unbound
    /\ required_ok = "unset" /\ todo = <<>> /\ lookups = <<>> /\ calls = <<>>
    /\ verdict = "none" /\ raised = "none"
    /\ loop = [current |-> 1,
               parked |-> [t \in Tx |-> IF t = 1 THEN NoFrame ELSE StartFrame(ms[t])]]

\* The running task is at an await, where the event loop may run another
\* task: the header view (async with, async for: lines 266-267, and its
\* release), and the session's delete, update, insert (lines 243, 244, 213,
\* 214).  Nothing between line 284 and those calls awaits: neither
\* check_required_headers nor check_all_dmarc_rejections, whose call of
\* dmarc.get_dmarc_record (line 53) is a plain call.
Suspended ==
  \/ pc \in {"start", "release", "gate", "rev_delete", "rev_update", "fwd_update"}
  \/ pc = "fwd_check" /\ todo = <<>>

\* The running task has ended.
Ended == pc \in {"done", "raised"}

\* A variant of Switch: from_value is one variable of the module, which all
\* tasks read and write, not a local of each call of handle().
Switch_SharedFromValue(t) ==
  /\ loop.current # 0
  /\ t \in Tx \ {loop.current}
  /\ Suspended \/ Ended
  /\ loop.parked[t].pc \notin {"done", "raised"}
  /\ LET f == loop.parked[t]
     IN  /\ message' = f.message /\ block' = f.block /\ pc' = f.pc
         /\ branch' = f.branch /\ header_view' = f.header_view
         /\ mail_headers' = f.mail_headers
         /\ from_header' = f.from_header /\ from_value' = from_value
         /\ original_from_header' = f.original_from_header
         /\ original_from_value' = f.original_from_value
         /\ required_ok' = f.required_ok /\ todo' = f.todo
         /\ lookups' = f.lookups /\ calls' = f.calls
         /\ verdict' = f.verdict /\ raised' = f.raised
  /\ loop' = [current |-> t,
              parked |-> [loop.parked EXCEPT ![loop.current] = LiveFrame, ![t] = NoFrame]]
  /\ UNCHANGED <<codec, gate, dm, conf, addr, cfg, relay>>

\* The event loop runs task t in place of the running task, which is
\* suspended or has ended: each task goes on with its own frame.
Switch(t) ==
  /\ loop.current # 0
  /\ t \in Tx \ {loop.current}
  /\ Suspended \/ Ended
  /\ loop.parked[t].pc \notin {"done", "raised"}
  /\ LET f == loop.parked[t]
     IN  /\ message' = f.message /\ block' = f.block /\ pc' = f.pc
         /\ branch' = f.branch /\ header_view' = f.header_view
         /\ mail_headers' = f.mail_headers
         /\ from_header' = f.from_header /\ from_value' = f.from_value
         /\ original_from_header' = f.original_from_header
         /\ original_from_value' = f.original_from_value
         /\ required_ok' = f.required_ok /\ todo' = f.todo
         /\ lookups' = f.lookups /\ calls' = f.calls
         /\ verdict' = f.verdict /\ raised' = f.raised
  /\ loop' = [current |-> t,
              parked |-> [loop.parked EXCEPT ![loop.current] = LiveFrame, ![t] = NoFrame]]
  /\ UNCHANGED <<codec, gate, dm, conf, addr, cfg, relay>>

(***************************************************************************)
(* A message that passes through the milter more than once.  handle() is   *)
(* the handler of every message the listener is given                      *)
(* (listener.serve(handle)): a message it has accepted goes on with the    *)
(* header block as the session's mutations left it, and is handled as any  *)
(* other message when it comes by again.  relay keeps the message as it    *)
(* first came and what each earlier pass did.                              *)
(***************************************************************************)
\* The headers of the messages that are relayed: From headers with one
\* mailbox, two, an address without domain and an empty value; a header
\* the configuration may require.
RelayPool ==
  { Hdr("From", Str(<<" ", "N", " ", "<", "a", "@", "d", ">">>)),
    Hdr("from", Str(<<" ", "a", "@", "d", ",", " ", "b", "@", "e">>)),
    Hdr("From", Str(<<" ", "x">>)),
    Hdr("From", <<>>),
    Hdr("X-H", Str(<<" ", "V", " ">>)) }

RelayMessages == SeqsUpTo(RelayPool, MaxHeaders)

\* The configurations the relayed messages are handled under: the defaults,
\* a required header, reverse-mode off.
RelayConfigs ==
  { c \in Configs : "rewrite.forward" \notin DOMAIN c /\ "rewrite.quote_char" \notin DOMAIN c }

RelayInit ==
  /\ cfg \in RelayConfigs
  /\ message \in RelayMessages
  /\ block = BlockOf(message)
  /\ pc = "start" /\ branch = "none"
  /\ header_view = ViewClosed
  /\ mail_headers = <<>> /\ from_header = 0 /\ from_value = Unbound
  /\ original_from_header = 0 /\ original_from_value = Unbound
  /\ required_ok = "unset" /\ todo = <<>> /\ lookups = <<>> /\ calls = <<>>
  /\ verdict = "none" /\ raised = "none"
  /\ relay = [pass |-> 1, original |-> message, earlier |-> <<>>]

\* The header block as a message: the headers in their order.
MessageOf(b) == [i \in DOMAIN b |-> Hdr(b[i].name, b[i].value)]

\* The message handle() accepted comes by again: a new session, whose header
\* block is the one the pass before left, and a new call of handle().
Redeliver ==
  /\ pc = "done"
  /\ relay.pass \in 1..(MaxPasses - 1)
  /\ relay' = [pass |-> relay.pass + 1,
               original |-> relay.original,
               earlier |-> Append(relay.earlier, [branch |-> branch, calls |-> calls])]
  /\ message' = MessageOf(block)
  /\ block' = BlockOf(MessageOf(block))
  /\ pc' = "start" /\ branch' = "none"
  /\ header_view' = ViewClosed
  /\ mail_headers' = <<>> /\ from_header' = 0 /\ from_value' = Unbound
  /\ original_from_header' = 0 /\ original_from_value' = Unbound
  /\ required_ok' = "unset" /\ todo' = <<>> /\ lookups' = <<>> /\ calls' = <<>>
  /\ verdict' = "none" /\ raised' = "none"
  /\ UNCHANGED <<codec, gate, dm, conf, addr, loop, cfg>>

(***************************************************************************)
(* Specifications.                                                         *)
(***************************************************************************)
\* One message handled by handle().
\* No function is run on its own.
PureIdle ==
  codec = CodecIdle /\ gate = GateIdle /\ dm = DmIdle /\ conf = ConfIdle /\ addr = AddrIdle

Init == HandlerInit /\ PureIdle /\ loop = LoopIdle /\ relay = RelayIdle

Next == handle

Spec == Init /\ [][Next]_vars

\* quote_email_address and unquote_email_address.
CodecNext == CodecQuote \/ CodecUnquote \/ CodecUnquoteInput

InitCodec ==
  /\ CodecInit /\ gate = GateIdle /\ dm = DmIdle /\ conf = ConfIdle /\ addr = AddrIdle
  /\ HandlerIdle /\ loop = LoopIdle /\ relay = RelayIdle

SpecCodec == InitCodec /\ [][CodecNext]_vars

\* check_required_headers.
GateNext == GateCheck

InitGate ==
  /\ GateInit /\ codec = CodecIdle /\ dm = DmIdle /\ conf = ConfIdle /\ addr = AddrIdle
  /\ HandlerIdle /\ loop = LoopIdle /\ relay = RelayIdle

SpecGate == InitGate /\ [][GateNext]_vars

\* check_all_dmarc_rejections and check_dmarc_rejection.
DmNext == DmStep \/ DmReturn

InitDm ==
  /\ DmInit /\ codec = CodecIdle /\ gate = GateIdle /\ conf = ConfIdle /\ addr = AddrIdle
  /\ HandlerIdle /\ loop = LoopIdle /\ relay = RelayIdle

SpecDmarc == InitDm /\ [][DmNext]_vars

\* get_config_value.
ConfNext == ConfGet

InitConf ==
  /\ ConfInit /\ codec = CodecIdle /\ gate = GateIdle /\ dm = DmIdle /\ addr = AddrIdle
  /\ HandlerIdle /\ loop = LoopIdle /\ relay = RelayIdle

SpecConfig == InitConf /\ [][ConfNext]_vars

\* extract_localpart, extract_domain, unrewrite_email_address.
AddrNext == AddrExtract \/ AddrUnrewrite

InitAddr ==
  /\ AddrInit /\ codec = CodecIdle /\ gate = GateIdle /\ dm = DmIdle /\ conf = ConfIdle
  /\ HandlerIdle /\ loop = LoopIdle /\ relay = RelayIdle

SpecAddress == InitAddr /\ [][AddrNext]_vars

\* The server: the handlers of MaxTx connections on one event loop.
ServerNext == handle \/ \E t \in Tx : Switch(t)

InitServer == ServerInit /\ PureIdle /\ relay = RelayIdle

SpecServer == InitServer /\ [][ServerNext]_vars

\* One message handled by handle() each time it comes by.
RelayNext == handle \/ Redeliver

InitRelay == RelayInit /\ PureIdle /\ loop = LoopIdle

SpecRelay == InitRelay /\ [][RelayNext]_vars

(***************************************************************************)
(* Properties.                                                             *)
(***************************************************************************)
\* handle() has ended, by a return or by an exception.
Terminal == pc \in {"done", "raised"}

\* The Session mutations that took effect.
Applied == SelectSeq(calls, LAMBDA c : c.ok)

\* No Session mutation has failed.
AllCallsOk == \A i \in DOMAIN calls : calls[i].ok

\* The position of the last header of the message whose name is lname in
\* lower case, 0 when there is none.
LastNamed(lname) ==
  LET at == {i \in DOMAIN message : Lower[message[i].name] = lname}
  IN  IF at = {} THEN 0 ELSE CHOOSE i \in at : \A j \in at : j <= i

FromIdx == LastNamed("from")
XofIdx == LastNamed("x-original-from")
ReverseEnabled == get_config_value(cfg, "rewrite.reverse", TRUE)
ForwardEnabled == get_config_value(cfg, "rewrite.forward", TRUE)

\* C1: for every address string x and every quote symbol q,
\* unquote_email_address(quote_email_address(x, q), q) = x.
C1_RoundTrip == codec.pc = "done" => codec.dec = codec.x

\* The round trip of C1 for the quote symbols that percent-encoding escapes
\* (so that no character of quote()'s output is taken for a "%").
C1_RoundTripEscapedQuote ==
  (codec.pc = "done" /\ ~IsUnreserved(codec.q)) => codec.dec = codec.x

\* C2: handle() always ends by returning Accept; no exception leaves it.
C2_AlwaysAccepts == Terminal => (verdict = "Accept" /\ raised = "none")

\* C3: the mutations that took effect are the complete sequence of the branch
\* (two of them) or none; when a mutation fails, the fault is caught and no
\* mutation has taken effect.
C3_AllOrNothing ==
  Terminal => /\ Len(Applied) \in {0, 2}
              /\ ~AllCallsOk => (Applied = <<>> /\ raised = "none")

\* The mailboxes of the message's From header, and the domains they name.
FromMailboxes == getaddresses(message[FromIdx].value)
FromDomains ==
  FilterDomains([i \in DOMAIN FromMailboxes |-> extract_domain(FromMailboxes[i].addr)])

\* The cloaked form of one mailbox: the display name kept, the whole original
\* address quoted as the local part, the configured rewrite domain.
Cloaked(m) ==
  LET local == quote_email_address(m.addr, get_config_value(cfg, "rewrite.quote_char", Ord["="]))
      spec == local \o <<Ord["@"]>> \o cfg["domain"]
  IN  IF m.name = <<>> THEN spec
      ELSE m.name \o <<Ord[" "], Ord["<"]>> \o spec \o <<Ord[">"]>>

\* The forward case: the gate is satisfied, the reverse branch is not taken,
\* forward-mode is on, and each From domain, asked in order, rejects.
ForwardCase ==
  /\ pc = "done"
  /\ required_ok = "True"
  /\ ~(XofIdx # 0 /\ ReverseEnabled)
  /\ ForwardEnabled
  /\ FromIdx # 0
  /\ Len(lookups) = Len(FromDomains)
  /\ \A i \in DOMAIN lookups :
       lookups[i] = [domain |-> FromDomains[i], result |-> Return(TRUE)]

\* The two mutations of the forward branch.
ForwardMutations ==
  << Call("insert", 0, "X-Original-From", message[FromIdx].value, "END", TRUE),
     Call("update", FromIdx, "",
          <<Ord[" "]>> \o Join([i \in DOMAIN FromMailboxes |-> Cloaked(FromMailboxes[i])]),
          "", TRUE) >>

\* C4: in the forward case the handler calls, in this order, insert of
\* X-Original-From at END with the From value as it was captured, then update
\* of the From header to " " and the ", "-joined cloaked mailboxes; it calls
\* nothing else, and both calls are made unless the Session fails one.
C4_ForwardCloak ==
  ForwardCase =>
    /\ Len(calls) <= 2
    /\ \A i \in DOMAIN calls : [calls[i] EXCEPT !.ok = TRUE] = ForwardMutations[i]
    /\ AllCallsOk =>
         /\ calls = ForwardMutations
         /\ block = UpdateRef(InsertEnd(BlockOf(message), "X-Original-From",
                                        message[FromIdx].value),
                              FromIdx, ForwardMutations[2].value)

\* C4's case: " N <a@d>" from a rejecting domain becomes " N <a=40d@r.x>".
C4_Witness ==
  /\ ForwardCase
  /\ Len(calls) = 2 /\ AllCallsOk
  /\ calls[1].value = Str(<<" ", "N", " ", "<", "a", "@", "d", ">">>)
  /\ calls[2].value =
       Str(<<" ", "N", " ", "<", "a", "=", "4", "0", "d", "@", "r", ".", "x", ">">>)

\* The reverse case: the gate is satisfied, the message has a From header and
\* an X-Original-From header with a value, and reverse-mode is on.
ReverseCase ==
  /\ Terminal
  /\ required_ok = "True"
  /\ XofIdx # 0 /\ message[XofIdx].value # <<>>
  /\ FromIdx # 0
  /\ ReverseEnabled

\* The two mutations of the reverse branch.
ReverseMutations ==
  << Call("delete", XofIdx, "", <<>>, "", TRUE),
     Call("update", FromIdx, "", message[XofIdx].value, "", TRUE) >>

\* The message with header XofIdx removed and the value of header FromIdx
\* replaced by that of header XofIdx; every other header as it was.
ReverseBlock ==
  LET b == BlockOf(message)
      kept == SelectSeq(b, LAMBDA h : h.ref # XofIdx)
  IN  [i \in DOMAIN kept |->
         IF kept[i].ref = FromIdx THEN [kept[i] EXCEPT !.value = message[XofIdx].value]
         ELSE kept[i]]

\* C5: in the reverse case the handler calls, in this order, delete of the
\* X-Original-From header, then update of the From header to the captured
\* X-Original-From value as it is; it calls nothing else and asks no oracle,
\* and when it returns both have taken effect and no other header changed.
C5_ReverseRestore ==
  ReverseCase =>
    /\ Len(calls) <= 2
    /\ \A i \in DOMAIN calls : [calls[i] EXCEPT !.ok = TRUE] = ReverseMutations[i]
    /\ lookups = <<>>
    /\ (pc = "done" \/ AllCallsOk) =>
         /\ pc = "done"
         /\ calls = ReverseMutations
         /\ block = ReverseBlock

\* C5's case: a message of three headers restored, the third left alone.
C5_Witness ==
  /\ ReverseCase /\ pc = "done"
  /\ Len(message) = 3 /\ Len(block) = 2
  /\ \E i \in DOMAIN block : block[i].name = "X-H" /\ block[i].value = message[block[i].ref].value
  /\ \E i \in DOMAIN block :
       /\ block[i].name = "From"
       /\ block[i].value = Str(<<" ", "M", " ", "<", "b", "@", "e", ">">>)

\* C6: in the reverse branch, when the message has no From header or the
\* X-Original-From value is empty, no Session mutation is called and the
\* handler accepts.
C6_ReverseGuard ==
  (Terminal /\ branch = "reverse"
     /\ (FromIdx = 0 \/ message[XofIdx].value = <<>>))
    => (calls = <<>> /\ verdict = "Accept")

\* The half of C6 about an empty X-Original-From value.
C6_EmptyOriginalIsNoOp ==
  (Terminal /\ branch = "reverse" /\ message[XofIdx].value = <<>>)
    => (calls = <<>> /\ verdict = "Accept")

\* The gate is unsatisfied.
GatedOut == required_ok = "False"

\* C8: once the gate is unsatisfied the handler has returned Accept, and it
\* has called no Session mutation and asked no oracle, whatever the headers
\* and the mode settings.
C8_GatedOutFrame ==
  GatedOut => /\ pc = "done" /\ verdict = "Accept" /\ raised = "none"
              /\ calls = <<>> /\ lookups = <<>>
              /\ block = BlockOf(message)

\* C8's case: gated out with a From and an X-Original-From header present
\* and both modes on.
C8_Witness ==
  /\ GatedOut /\ pc = "done"
  /\ FromIdx # 0 /\ XofIdx # 0 /\ message[XofIdx].value # <<>>
  /\ ReverseEnabled /\ ForwardEnabled

\* t is v without the whitespace at its two ends.
TrimOf(v, t) ==
  \E i \in 1..(Len(v) + 1), j \in 0..Len(v) :
    /\ j >= i - 1
    /\ t = SubSeq(v, i, j)
    /\ \A k \in 1..(i - 1) : v[k] \in Whitespace
    /\ \A k \in (j + 1)..Len(v) : v[k] \in Whitespace
    /\ t = <<>> \/ (t[1] \notin Whitespace /\ t[Len(t)] \notin Whitespace)

\* The requirement req is satisfied by a header of value v.
Satisfied(req, v) ==
  \/ req.kind = "true"
  \/ req.kind = "str" /\ TrimOf(v, req.val)
  \/ req.kind = "list" /\ \E k \in DOMAIN req.val : TrimOf(v, req.val[k])

\* C7: check_required_headers is True when the configuration has no "header"
\* mapping; otherwise it is True exactly when some captured header's name, as
\* it is written, has a requirement that its value satisfies (True: any value;
\* a string: the value without surrounding whitespace equals it; a list: that
\* value is a member).
C7_RequiredHeaderGate ==
  gate.pc = "done" =>
    gate.result =
      IF "header" \notin DOMAIN gate.config THEN TRUE
      ELSE \E i \in DOMAIN gate.headers :
             /\ gate.headers[i].name \in DOMAIN gate.config["header"]
             /\ Satisfied(gate.config["header"][gate.headers[i].name],
                          gate.headers[i].value)

\* C7's case: the requirement X-H = "V" is not met by "x-h: V" and is met by
\* "X-H:  V ".
C7_Witness ==
  /\ gate.pc = "done" /\ gate.result
  /\ gate.config = ("header" :> ("X-H" :> ReqStr(Str(<<"V">>))))
  /\ Len(gate.headers) = 2
  /\ gate.headers[1].name = "x-h" /\ gate.headers[1].value = Str(<<"V">>)
  /\ gate.headers[2].name = "X-H" /\ gate.headers[2].value = Str(<<" ", "V", " ">>)

\* check_dmarc_rejection of the k-th domain handed to check_all_dmarc_rejections.
Evaluation(k) == check_dmarc_rejection(dm.domains[k], dm.oracle[dm.domains[k]])

\* C9: check_all_dmarc_rejections is True exactly when check_dmarc_rejection
\* is True of every domain; a domain that evaluates to False (none before it
\* failing to evaluate) makes it False.
C9_Aggregation ==
  dm.pc = "done" =>
    /\ (dm.result = Return(TRUE))
         <=> \A k \in DOMAIN dm.domains : Evaluation(k) = Return(TRUE)
    /\ (\E k \in DOMAIN dm.domains :
          /\ Evaluation(k) = Return(FALSE)
          /\ \A j \in 1..(k - 1) : Evaluation(j).exc = "none")
         => dm.result = Return(FALSE)

\* C9's case: of two domains the first rejects and the second does not.
C9_Witness ==
  /\ dm.pc = "done" /\ Len(dm.domains) = 2
  /\ Evaluation(1) = Return(TRUE) /\ Evaluation(2) = Return(FALSE)
  /\ dm.result = Return(FALSE)

\* The record a with the value of tag t set to v.
WithTag(a, t, v) == [a EXCEPT !.tags = (t :> v) @@ a.tags]

\* C10: for a domain whose record the oracle returns, check_dmarc_rejection is
\* True exactly when the domain is the record's location and p is reject or
\* quarantine, or it is not and sp is reject or quarantine; the other tag,
\* whatever its value, does not change the result.
C10_TagSelection ==
  \A k \in DOMAIN dm.results :
    LET d == dm.results[k].domain
        a == dm.oracle[d]
        r == dm.results[k].result
        other == IF d = a.location THEN "sp" ELSE "p"
    IN  a.kind = "record" =>
          /\ (r = Return(TRUE))
               <=> \/ d = a.location /\ a.tags["p"] \in {"reject", "quarantine"}
                   \/ /\ d # a.location
                      /\ "sp" \in DOMAIN a.tags
                      /\ a.tags["sp"] \in {"reject", "quarantine"}
          /\ \A v \in Policies : check_dmarc_rejection(d, WithTag(a, other, v)) = r

\* C10's case: a subdomain with p = none and sp = reject is rejected.
C10_Witness ==
  \E k \in DOMAIN dm.results :
    LET d == dm.results[k].domain
        a == dm.oracle[d]
    IN  /\ a.kind = "record" /\ a.location # d
        /\ "sp" \in DOMAIN a.tags /\ a.tags["p"] = "none" /\ a.tags["sp"] = "reject"
        /\ dm.results[k].result = Return(TRUE)

\* The oracle's answer a for domain d is a failure to look up, or a record
\* that cannot be evaluated: a subdomain's record without an sp tag.
LookupFault(d, a) ==
  \/ a.kind # "record"
  \/ a.location # d /\ "sp" \notin DOMAIN a.tags

\* C11: when the lookup of a domain fails or its record cannot be evaluated,
\* check_dmarc_rejection returns False; it does not raise.
C11_FailOpen ==
  \A k \in DOMAIN dm.results :
    LET d == dm.results[k].domain
    IN  LookupFault(d, dm.oracle[d]) => dm.results[k].result = Return(FALSE)

\* The part of C11 about the oracle's own error: a DMARCError is caught and
\* the domain is not rejecting.
C11_DmarcErrorFailOpen ==
  \A k \in DOMAIN dm.results :
    LET d == dm.results[k].domain
    IN  dm.oracle[d].kind = "DMARCError" => dm.results[k].result = Return(FALSE)

\* In the forward branch a From domain did not evaluate as rejecting: its
\* policy does not reject, or its lookup threw.
AllowSeen == \E i \in DOMAIN lookups : lookups[i].result # Return(TRUE)

\* C12: in the forward branch, once a From domain does not evaluate as
\* rejecting, the handler has returned Accept with no Session mutation called
\* and the header block as it was received.
C12_PassThroughOnAllow ==
  (branch = "forward" /\ AllowSeen) =>
    /\ pc = "done" /\ verdict = "Accept" /\ raised = "none"
    /\ calls = <<>>
    /\ block = BlockOf(message)

\* C12's case: of two From domains the first rejects and the lookup of the
\* second throws.
C12_Witness ==
  /\ branch = "forward" /\ pc = "done"
  /\ Len(lookups) = 2
  /\ lookups[1].result = Return(TRUE)
  /\ lookups[2].result.exc # "none"
  /\ calls = <<>> /\ verdict = "Accept"

\* C12's other case: the only From domain publishes p = none.
C12_WitnessPolicyNone ==
  /\ branch = "forward" /\ pc = "done"
  /\ Len(lookups) = 1
  /\ lookups[1].result = Return(FALSE)
  /\ calls = <<>> /\ verdict = "Accept"

\* The frame of task t: the live one when t runs, the parked one when not.
FrameOf(t) == IF loop.current = t THEN LiveFrame ELSE loop.parked[t]

\* Task t is in flight: its handler has not ended.
InFlight(t) == FrameOf(t).pc \notin {"done", "raised"}

\* The running task is between the start and the completion of a
\* PolicyOracle lookup: check_all_dmarc_rejections has a domain to ask about.
LookupOutstanding == loop.current # 0 /\ pc = "fwd_check" /\ todo # <<>>

\* C13: while a transaction's PolicyOracle lookup is outstanding, every other
\* transaction in flight can take a step: the event loop can run its task.
C13_LookupDoesNotBlock ==
  LookupOutstanding =>
    \A u \in Tx \ {loop.current} : InFlight(u) => ENABLED Switch(u)

\* What does hold: while the running task is suspended in an await of the
\* session, every other transaction in flight can take a step.
C13_AwaitDoesNotBlock ==
  (loop.current # 0 /\ Suspended) =>
    \A u \in Tx \ {loop.current} : InFlight(u) => ENABLED Switch(u)

\* C17: in every step of the server, services["app_config"] is not written,
\* and the frame of each transaction (its session's header block, its
\* mutations, lookups, verdict, locals) either stays as it is or changes by
\* a step of handle() run on that frame, as it does when the transaction is
\* handled alone.
C17_Stateless ==
  [][ /\ cfg' = cfg
      /\ \A t \in Tx :
           \/ FrameOf(t)' = FrameOf(t)
           \/ loop.current = t /\ loop'.current = t /\ handle ]_vars

\* C17's case: the handler of one connection has cloaked its message and
\* returned while the handler of the other is suspended between the delete
\* and the update of its reverse branch.
C17_Witness ==
  /\ loop.current = 2
  /\ pc = "done" /\ branch = "forward" /\ Len(calls) = 2 /\ AllCallsOk
  /\ loop.parked[1].pc = "rev_update"
  /\ Len(loop.parked[1].calls) = 1
  /\ loop.parked[1].message # message

\* The legacy name of the key asked for.
LegacyKey == "dmarc." \o conf.key

\* C14: get_config_value gives the entry of the key when the configuration
\* has one, whatever it has under the legacy name; without one, the entry of
\* "dmarc." and the key when it has that; without either, the default of the
\* call, None when the call gave none.
C14_ConfigResolution ==
  conf.pc = "done" =>
    /\ conf.key \in DOMAIN conf.cfg => conf.result = conf.cfg[conf.key]
    /\ (conf.key \notin DOMAIN conf.cfg /\ LegacyKey \in DOMAIN conf.cfg)
         => conf.result = conf.cfg[LegacyKey]
    /\ (conf.key \notin DOMAIN conf.cfg /\ LegacyKey \notin DOMAIN conf.cfg)
         => conf.result = conf.default

\* C14's case: the key and its legacy name both have an entry, of different
\* values, and the key's own entry is the result.
C14_Witness ==
  /\ conf.pc = "done"
  /\ conf.key \in DOMAIN conf.cfg /\ LegacyKey \in DOMAIN conf.cfg
  /\ conf.cfg[conf.key] # conf.cfg[LegacyKey]
  /\ conf.result = conf.cfg[conf.key]

\* C14's other cases: the legacy entry alone, and no entry with no default.
C14_WitnessLegacy ==
  /\ conf.pc = "done"
  /\ conf.key \notin DOMAIN conf.cfg /\ LegacyKey \in DOMAIN conf.cfg
  /\ conf.result = conf.cfg[LegacyKey] /\ conf.result # conf.default

C14_WitnessDefault ==
  /\ conf.pc = "done"
  /\ conf.key \notin DOMAIN conf.cfg /\ LegacyKey \notin DOMAIN conf.cfg
  /\ conf.default = None /\ conf.result = None

\* The text t has a malformed percent sequence: a "%" that two hexadecimal
\* digits do not follow.
Malformed(t) ==
  \E i \in DOMAIN t :
    /\ t[i] = Ord["%"]
    /\ ~(i + 2 <= Len(t) /\ IsHex(t[i + 1]) /\ IsHex(t[i + 2]))

\* The text t has a well-formed percent sequence.
WellFormedIn(t) ==
  \E i \in DOMAIN t :
    t[i] = Ord["%"] /\ i + 2 <= Len(t) /\ IsHex(t[i + 1]) /\ IsHex(t[i + 2])

\* The input of unquote_email_address with the quote symbol replaced by "%".
CodecPercentForm == [i \in DOMAIN codec.x |->
                       IF codec.x[i] = codec.q THEN Ord["%"] ELSE codec.x[i]]

\* C15: when the input of unquote_email_address, the quote symbol replaced by
\* "%", has a malformed percent sequence, the result is the input itself.
C15_DecodeFailsOpen ==
  (codec.pc = "unquoted" /\ Malformed(CodecPercentForm)) => codec.dec = codec.x

\* What does hold of such an input: when it has no well-formed sequence
\* beside the malformed one, the result is its percent form, the quote symbol
\* replaced by "%"; it is the input itself only when the quote symbol is "%".
C15_MalformedKeptInPercentForm ==
  (codec.pc = "unquoted" /\ Malformed(CodecPercentForm) /\ ~WellFormedIn(CodecPercentForm))
    => codec.dec = CodecPercentForm

\* The call of unrewrite_email_address as C16 has it: the domain given after
\* the email (None when none is), and the quote character after it ("=" when
\* none is).
UnrewriteDomain == IF addr.args = <<>> THEN None ELSE addr.args[1]
UnrewriteQuote == IF Len(addr.args) < 2 THEN Ord["="] ELSE addr.args[2].val[1]

\* "name <a>", or a alone without a name.
NameAddr(name, a) ==
  IF name = <<>> THEN a ELSE name \o <<Ord[" "], Ord["<"]>> \o a \o <<Ord[">"]>>

\* The call is about an address cloaked with the quote character of the call.
UnrewriteCase ==
  /\ addr.pc = "done" /\ addr.op = "unrewrite"
  /\ \E i \in DOMAIN addr.s : addr.s[i] = UnrewriteQuote

\* The original address: the local part of the cloaked one, decoded.
UnrewriteOriginal == unquote_email_address(extract_localpart(addr.s), UnrewriteQuote)

\* C16: unrewrite_email_address((name, addr), domain, quote_char) returns
\* "name <original address>" when domain is None, is not given, or is the
\* domain of addr, and "name <addr>", the cloaked address as it is, when
\* domain is another domain.
C16_DomainCheckedUnrewrite ==
  UnrewriteCase =>
    /\ addr.result.exc = "none"
    /\ addr.result.val =
         IF UnrewriteDomain = None \/ UnrewriteDomain.val = extract_domain(addr.s)
         THEN NameAddr(addr.name, UnrewriteOriginal)
         ELSE NameAddr(addr.name, addr.s)

\* What does hold: called with the email alone and the default quote, it
\* returns "name <original address>".
C16_EmailAloneIsDecoded ==
  (UnrewriteCase /\ addr.args = <<>>) =>
    /\ addr.result.exc = "none"
    /\ addr.result.val = NameAddr(addr.name, UnrewriteOriginal)

\* The message has passed the gate and handle() has chosen what to do.
BranchChosen == required_ok = "True" /\ branch # "none"

\* C18: for a message that has passed the gate, handle() is in its reverse
\* branch exactly when the message has an X-Original-From header and
\* reverse-mode is on; in its forward branch exactly when it is not in the
\* reverse branch and forward-mode is on; and does nothing otherwise.  In the
\* reverse branch no oracle is asked and nothing is inserted, at any time; in
\* the forward branch nothing is deleted.
C18_BranchSelection ==
  BranchChosen =>
    /\ branch = "reverse" <=> (XofIdx # 0 /\ ReverseEnabled)
    /\ branch = "forward" <=> (~(XofIdx # 0 /\ ReverseEnabled) /\ ForwardEnabled)
    /\ branch = "noop" <=> (~(XofIdx # 0 /\ ReverseEnabled) /\ ~ForwardEnabled)
    /\ branch = "noop" => (calls = <<>> /\ lookups = <<>> /\ verdict = "Accept")
    /\ branch = "reverse" =>
         /\ pc \in {"reverse", "rev_delete", "rev_update", "done", "raised"}
         /\ lookups = <<>> /\ todo = <<>>
         /\ \A i \in DOMAIN calls : calls[i].op \in {"delete", "update"}
    /\ branch = "forward" =>
         /\ pc \in {"forward", "fwd_check", "fwd_update", "done", "raised"}
         /\ \A i \in DOMAIN calls : calls[i].op \in {"insert", "update"}

\* C18's case: the reverse branch ends as a no-op (the X-Original-From value
\* is empty) for a message with a From header and forward-mode on; the
\* forward rewrite is not attempted.
C18_Witness ==
  /\ BranchChosen /\ pc = "done" /\ branch = "reverse"
  /\ message[XofIdx].value = <<>>
  /\ FromIdx # 0 /\ ForwardEnabled
  /\ calls = <<>> /\ lookups = <<>>

\* C18's other cases: X-Original-From present with reverse-mode off and
\* forward-mode on is the forward branch; with both off nothing is done.
C18_WitnessForward ==
  /\ BranchChosen /\ branch = "forward" /\ XofIdx # 0 /\ ~ReverseEnabled
  /\ pc = "done" /\ Len(calls) = 2

C18_WitnessNoop ==
  /\ BranchChosen /\ branch = "noop" /\ XofIdx # 0 /\ FromIdx # 0

\* The headers have been read to the end.
Captured == required_ok # "unset"

\* The positions of the headers whose name is lname in lower case.
Named(lname) == {i \in DOMAIN message : Lower[message[i].name] = lname}

\* The header of the block that the message had at position i.
BlockHeader(i) == {h \in {block[k] : k \in DOMAIN block} : h.ref = i}

\* C19: of several headers named From, or X-Original-From, in any case of
\* letters, the last one in header order gives the reference and the value
\* handle() uses: the domains looked up and the value inserted are those of
\* the last From header, every update is of the last From header, every
\* delete is of the last X-Original-From header, and every other header
\* stays in the block as it was.
C19_LastOccurrenceWins ==
  Captured =>
    /\ from_header = FromIdx
    /\ FromIdx # 0 => from_value = message[FromIdx].value
    /\ original_from_header = XofIdx
    /\ XofIdx # 0 => original_from_value = message[XofIdx].value
    /\ \A i \in DOMAIN lookups : lookups[i].domain = FromDomains[i]
    /\ \A i \in DOMAIN calls :
         /\ calls[i].op = "update" => calls[i].ref = FromIdx
         /\ calls[i].op = "delete" => calls[i].ref = XofIdx
         /\ calls[i].op = "insert" => calls[i].value = message[FromIdx].value
         /\ (calls[i].op = "update" /\ branch = "reverse")
              => calls[i].value = message[XofIdx].value
    /\ \A i \in DOMAIN message :
         i \notin {FromIdx, XofIdx} =>
           BlockHeader(i) = {[ref |-> i, name |-> message[i].name, value |-> message[i].value]}

\* C19's case: a message with two From headers of different values is
\* cloaked; the first one is in the block as it was.
C19_Witness ==
  /\ Captured /\ pc = "done" /\ branch = "forward"
  /\ Len(calls) = 2 /\ AllCallsOk
  /\ \E i \in Named("from") :
       /\ i < FromIdx
       /\ message[i].value # message[FromIdx].value
       /\ Decodable(message[i].value)
       /\ BlockHeader(i) = {[ref |-> i, name |-> message[i].name, value |-> message[i].value]}
  /\ BlockHeader(FromIdx) # {[ref |-> FromIdx, name |-> message[FromIdx].name,
                              value |-> message[FromIdx].value]}

\* C19's other case: of two X-Original-From headers the last is deleted and
\* gives the value of From; the first stays.
C19_WitnessReverse ==
  /\ Captured /\ pc = "done" /\ branch = "reverse"
  /\ Len(calls) = 2 /\ AllCallsOk
  /\ \E i \in Named("x-original-from") : i < XofIdx /\ BlockHeader(i) # {}
  /\ BlockHeader(XofIdx) = {}

\* The position of the first "@" of the string, 0 without one.
FirstAt == IndexOf(addr.s, Ord["@"])

\* What C20 says of the string: the local part is the text before the first
\* "@" and the domain is all the text after it; without "@" the local part
\* is the string, there is no domain, and no domain of it is evaluated.
SplitAtFirst ==
  IF FirstAt # 0
  THEN /\ addr.result.localpart = SubSeq(addr.s, 1, FirstAt - 1)
       /\ addr.result.domain = SubSeq(addr.s, FirstAt + 1, Len(addr.s))
  ELSE /\ addr.result.localpart = addr.s
       /\ addr.result.domain = NoDomain
       /\ FilterDomains(<<addr.result.domain>>) = <<>>

\* C20: extract_localpart and extract_domain split every address string at
\* its first "@", also a string with more than one "@".
C20_AddressSplitting ==
  (addr.pc = "done" /\ addr.op = "extract") => SplitAtFirst

\* What does hold: the same of the strings with one "@" at most.
C20_SplittingOneAt ==
  (addr.pc = "done" /\ addr.op = "extract"
     /\ Cardinality({i \in DOMAIN addr.s : addr.s[i] = Ord["@"]}) <= 1) => SplitAtFirst

\* The view of the headers after the one complete iteration of a run: entered
\* once, every header of the message yielded once and in order, released.
ViewDone ==
  [entered |-> 1, read |-> [i \in 1..Len(message) |-> i], open |-> FALSE,
   exc |-> "none"]

\* C21: capture before mutation.  In every run of handle() the view of the
\* session's headers is entered and iterated once; a step that asks the
\* PolicyOracle or calls a mutation of the Session starts from a state where
\* that one iteration is complete and the view is released, and it leaves the
\* captured locals as they are; once the view is released the captured locals
\* are never written again, so every decision reads the snapshot.
C21_CaptureBeforeMutation ==
  [][ /\ header_view'.entered <= 1
      /\ Terminal' => (header_view'.entered = 1 /\ ~header_view'.open)
      /\ (lookups' # lookups \/ calls' # calls \/ block' # block) =>
           (header_view = ViewDone /\ UNCHANGED locals)
      /\ (header_view.entered = 1 /\ ~header_view.open) => UNCHANGED locals ]_vars

\* Both branches have mutated the session after the capture: the forward one
\* after its lookups, the reverse one without any.
C21_Witness ==
  /\ pc = "done" /\ branch = "forward"
  /\ lookups # <<>> /\ Len(calls) = 2 /\ AllCallsOk
  /\ header_view = ViewDone /\ Len(message) = MaxHeaders

C21_WitnessHeld ==
  pc = "release" /\ header_view.open /\ header_view.exc = "none" /\ message # <<>>

\* The message came with a From header and without an X-Original-From header.
RelayOriginalCase ==
  /\ \E i \in DOMAIN relay.original : Lower[relay.original[i].name] = "from"
  /\ \A i \in DOMAIN relay.original : Lower[relay.original[i].name] # "x-original-from"

\* The first pass cloaked the message: the forward branch, with the insert and
\* the update both applied.
RelayCloaked ==
  /\ relay.pass = 2
  /\ relay.earlier[1].branch = "forward"
  /\ Len(relay.earlier[1].calls) = 2
  /\ \A i \in 1..2 : relay.earlier[1].calls[i].ok

\* The second pass has returned, with reverse-mode on and every call of the
\* session taking effect.
RelaySecondPassDone == RelayCloaked /\ ReverseEnabled /\ pc = "done" /\ AllCallsOk

\* The From value the message came with (the last From header).
RelayOriginalFrom ==
  LET froms == {i \in DOMAIN relay.original : Lower[relay.original[i].name] = "from"}
  IN  relay.original[CHOOSE i \in froms : \A j \in froms : j <= i].value

\* C22: message-level round trip.  A message with a From header and no
\* X-Original-From header that handle() cloaks, handled again with reverse-mode
\* on, is left with the header sequence it first came with: the original From
\* value, and no X-Original-From header.
C22_MessageRoundTrip ==
  (RelayOriginalCase /\ RelaySecondPassDone) => MessageOf(block) = relay.original

\* The part of C22 that holds: the round trip of every message whose From
\* value is not empty.
C22_RoundTripOfNonEmptyFrom ==
  (RelayOriginalCase /\ RelaySecondPassDone /\ RelayOriginalFrom # <<>>)
    => (MessageOf(block) = relay.original /\ branch = "reverse" /\ Len(calls) = 2)

C22_WitnessRoundTrip ==
  /\ RelayOriginalCase /\ RelaySecondPassDone /\ RelayOriginalFrom # <<>>
  /\ Len(relay.original) = MaxHeaders
  /\ MessageOf(block) = relay.original

\* The forward mutations are applied: handle() took the forward branch, and
\* the insert of X-Original-From and the update of From both took effect.
ForwardApplied ==
  /\ branch = "forward"
  /\ Len(calls) = 2 /\ AllCallsOk
  /\ calls[1].op = "insert" /\ calls[2].op = "update"

\* A domain of the From header was evaluated as reject or quarantine.
RejectSeen == \E i \in DOMAIN lookups : lookups[i].result = Return(TRUE)

\* C23: cloak only on evidence.  Whenever the forward mutations are applied,
\* at least one domain extracted from the From header was evaluated by the
\* PolicyOracle as reject or quarantine; a From header no domain can be
\* extracted from is never cloaked.
C23_CloakOnlyOnEvidence == ForwardApplied => RejectSeen

\* The part of C23 that holds: a From header with a domain is cloaked only
\* when each of its domains was evaluated, and as reject or quarantine.
C23_EvidenceWhenDomains ==
  (ForwardApplied /\ FromDomains # <<>>) =>
    /\ Len(lookups) = Len(FromDomains)
    /\ \A i \in DOMAIN lookups :
         lookups[i] = [domain |-> FromDomains[i], result |-> Return(TRUE)]

C23_WitnessEvidence ==
  ForwardApplied /\ Len(FromDomains) = MaxDomains /\ RejectSeen

=============================================================================
